---- MODULE Spec2Model ----
(***************************************************************************)
(* Model of the comparable package: Similarity values (base.py), the       *)
(* by-attributes equality and similarity of Comparable (base.py), the leaf *)
(* types Number and Text (simple.py) and Group (compound.py).              *)
(*                                                                         *)
(* Python floats are modelled as exact rationals [n, d] in lowest terms;   *)
(* rounding error of the floating point operations is not modelled.        *)
(* A call either returns a value or raises: every result is a record       *)
(* [exc, val, ...] with exc = "none" when the call returned.               *)
(***************************************************************************)
EXTENDS Integers, Sequences, FiniteSets, TLC

(***************************************************************************)
(* Bounds of the model.                                                    *)
(***************************************************************************)
MaxNum == 2          \* Number leaves wrap 0..MaxNum
MaxLen == 2          \* a Group holds at most MaxLen items
MaxWeight == 2       \* similarity weights are 0..MaxWeight
MaxNames == 2        \* length of an explicit names argument
MaxOps == 2          \* arithmetic operations applied in one behaviour
MaxValue == 7        \* Numbers compared by Number.similarity wrap 0..MaxValue

(***************************************************************************)
(* Rationals standing for Python floats.                                   *)
(***************************************************************************)
RECURSIVE GCD(_, _)
GCD(a, b) == IF b = 0 THEN a ELSE GCD(b, a % b)

Abs(x) == IF x < 0 THEN -x ELSE x

Rat(n, d) ==
    LET s == IF d < 0 THEN -1 ELSE 1
        g == GCD(Abs(n), Abs(d))
    IN  [n |-> (s * n) \div g, d |-> (s * d) \div g]

RatAdd(a, b) == Rat(a.n * b.d + b.n * a.d, a.d * b.d)
RatSub(a, b) == Rat(a.n * b.d - b.n * a.d, a.d * b.d)
RatMul(a, b) == Rat(a.n * b.n, a.d * b.d)
RatAbs(a) == Rat(Abs(a.n), a.d)
RatLt(a, b) == a.n * b.d < b.n * a.d
Zero == Rat(0, 1)
One == Rat(1, 1)

(***************************************************************************)
(* Results of calls.                                                       *)
(***************************************************************************)
Return(v) == [exc |-> "none", val |-> v]
Raise(e) == [exc |-> e, val |-> FALSE]

(***************************************************************************)
(* Strings are sequences of one-character strings, so that formatting and  *)
(* parsing are computed rather than assumed.                               *)
(***************************************************************************)
Digits == <<"0", "1", "2", "3", "4", "5", "6", "7", "8", "9">>

IsDigit(c) == \E i \in 1..10 : Digits[i] = c

DigitValue(c) == (CHOOSE i \in 1..10 : Digits[i] = c) - 1

\* "{0}".format(n) and str(n) of a non-negative int
RECURSIVE FormatInt(_)
FormatInt(n) ==
    IF n < 10 THEN <<Digits[n + 1]>>
    ELSE FormatInt(n \div 10) \o <<Digits[(n % 10) + 1]>>

\* int(s) of a string without sign or blanks: ValueError unless all digits
RECURSIVE DigitsValue(_)
DigitsValue(s) ==
    IF Len(s) = 0 THEN 0
    ELSE 10 * DigitsValue(SubSeq(s, 1, Len(s) - 1)) + DigitValue(s[Len(s)])

ParseInt(s) ==
    IF Len(s) > 0 /\ \A i \in 1..Len(s) : IsDigit(s[i])
    THEN Return(DigitsValue(s))
    ELSE Raise("ValueError")

(***************************************************************************)
(* Objects.  Every object is a record with a cls field:                    *)
(*   Number  [cls, num]     simple.py Number, wrapping a non-negative int  *)
(*   Text    [cls, text]    simple.py Text, wrapping a string              *)
(*   None    [cls]          Python's None                                  *)
(*   Group   [cls, items, equality_list, similarity_dict]   compound.py    *)
(*   Alpha, Beta  [cls, attrs]  two by-attributes subclasses of            *)
(*                CompoundComparable declaring the same attribute names    *)
(***************************************************************************)
Number(n) == [cls |-> "Number", num |-> n]
Text(s) == [cls |-> "Text", text |-> s]
None == [cls |-> "NoneType"]

TextValues == {<<"1">>, <<"a", "b">>}
Numbers == {Number(n) : n \in 0..MaxNum}
Texts == {Text(s) : s \in TextValues}
Leaves == Numbers \cup Texts

\* "item{0}".format(n): compound.py builds the positional attribute names
ItemName(n) == <<"i", "t", "e", "m">> \o FormatInt(n)

\* names = ["item{0}".format(n + 1) for n in range(len(items))]
ItemNames(len) == [n \in 1..len |-> ItemName(n)]

\* {name: 1 for name in names}; a dict is kept as the sequence of its
\* items in insertion order
ItemWeights(len) == [n \in 1..len |-> [name |-> ItemName(n), weight |-> 1]]

\* Group.__init__ naming one item too few
Group__init__ShortNames(items) ==
    [cls |-> "Group", items |-> items,
     equality_list |-> ItemNames(Len(items) - 1),
     similarity_dict |-> ItemWeights(Len(items) - 1)]

\* Group.__init__
Group__init__(items) ==
    [cls |-> "Group", items |-> items,
     equality_list |-> ItemNames(Len(items)),
     similarity_dict |-> ItemWeights(Len(items))]

AttrX == <<"x">>
AttrY == <<"y">>
Compound(cls, attrs) == [cls |-> cls, attrs |-> attrs]
CompoundClasses == {"Alpha", "Beta"}

(***************************************************************************)
(* Conversions of the leaf types (simple.py _Simple.__float__, __str__).   *)
(* The wrapped strings of the model are digit strings and letter strings:  *)
(* float() of a digit string is its integer value, of anything else a      *)
(* ValueError.  An object without __float__ gives a TypeError.             *)
(***************************************************************************)
FloatOf(obj) ==
    CASE obj.cls = "Number" -> Return(Rat(obj.num, 1))
      [] obj.cls = "Text" ->
            LET r == ParseInt(obj.text)
            IN  IF r.exc = "none" THEN Return(Rat(r.val, 1)) ELSE r
      [] OTHER -> Raise("TypeError")

\* object.__repr__ of an object without __str__: "<... object at 0x...>"
ObjectRepr == <<"<", "o", "b", "j", ">">>

StrOf(obj) ==
    CASE obj.cls = "Number" -> FormatInt(obj.num)
      [] obj.cls = "Text" -> obj.text
      [] obj.cls = "NoneType" -> <<"N", "o", "n", "e">>
      [] OTHER -> ObjectRepr

(***************************************************************************)
(* Attribute access.                                                       *)
(***************************************************************************)
\* seq[index] of Python: 0-based, negative indices count from the end
PyIndex(seq, index) ==
    IF index >= 0 /\ index < Len(seq) THEN Return(seq[index + 1])
    ELSE IF index < 0 /\ -index <= Len(seq) THEN Return(seq[Len(seq) + index + 1])
    ELSE Raise("IndexError")

StartsWithItem(name) ==
    Len(name) >= 4 /\ SubSeq(name, 1, 4) = <<"i", "t", "e", "m">>

\* Group.__getattr__: item<n> is items[n-1]; a bad number or an index out
\* of range is logged and ends in AttributeError like any other name
Group__getattr__(self, name) ==
    IF StartsWithItem(name)
    THEN LET n == ParseInt(SubSeq(name, 5, Len(name)))
         IN  IF n.exc # "none" THEN Raise("AttributeError")
             ELSE LET r == PyIndex(self.items, n.val - 1)
                  IN  IF r.exc = "none" THEN r ELSE Raise("AttributeError")
    ELSE Raise("AttributeError")

\* getattr(obj, name) for the attribute names of the model (x, y, item<n>)
GetAttr(obj, name) ==
    CASE obj.cls = "Group" -> Group__getattr__(obj, name)
      [] obj.cls \in CompoundClasses ->
            IF name \in DOMAIN obj.attrs THEN Return(obj.attrs[name])
            ELSE Raise("AttributeError")
      [] OTHER -> Raise("AttributeError")

\* the class-level declarations of Alpha and Beta; Beta overrides the
\* similarity threshold
DeclaredEqualityList == <<AttrX, AttrY>>
DeclaredSimilarityDict ==
    <<[name |-> AttrX, weight |-> 1], [name |-> AttrY, weight |-> 2]>>

EqualityList(obj) ==
    IF obj.cls = "Group" THEN obj.equality_list ELSE DeclaredEqualityList

SimilarityDict(obj) ==
    IF obj.cls = "Group" THEN obj.similarity_dict ELSE DeclaredSimilarityDict

\* Comparable.similarity_threshold, overridden by Number, Text and Beta
SimilarityThreshold(obj) ==
    CASE obj.cls = "Number" -> Rat(99999, 100000)
      [] obj.cls = "Text" -> Rat(83, 100)
      [] obj.cls = "Beta" -> Rat(3, 4)
      [] OTHER -> One

(***************************************************************************)
(* Equality.                                                               *)
(***************************************************************************)
GetEvent(side, name) == [ev |-> "getattr", of |-> side, name |-> name]
EqEvent(name) == [ev |-> "eq", name |-> name]
Logged(r, log) == [exc |-> r.exc, val |-> r.val, log |-> log]

RECURSIVE EqualityLoop(_, _, _, _, _)

\* Number.equality: float(self) == float(other)
Number_equality(self, other) ==
    LET f1 == FloatOf(self)
        f2 == FloatOf(other)
    IN  IF f1.exc # "none" THEN f1
        ELSE IF f2.exc # "none" THEN f2
        ELSE Return(f1.val = f2.val)

\* Text.equality: str(self) == str(other)
Text_equality(self, other) == Return(StrOf(self) = StrOf(other))

\* equal(obj1, obj2) == obj1.equality(obj2) of a leaf obj1
LeafEqual(obj1, obj2) ==
    CASE obj1.cls = "Number" -> Number_equality(obj1, obj2)
      [] obj1.cls = "Text" -> Text_equality(obj1, obj2)

\* attr1 == attr2 of two attribute values or items, which in the model are
\* leaves or None: Comparable.__eq__ of the left operand; None on the left
\* answers NotImplemented and Python asks the right operand
PyEq(attr1, attr2) ==
    IF attr1.cls = "NoneType"
    THEN IF attr2.cls = "NoneType" THEN Return(TRUE)
         ELSE LeafEqual(attr2, attr1)
    ELSE LeafEqual(attr1, attr2)

\* EqualityLoop with a missing attribute skipped, as the similarity does,
\* instead of ending the comparison with False
EqualityLoopSkipsMissing(self, other, names, i, log) ==
    IF i > Len(names) THEN Logged(Return(TRUE), log)
    ELSE LET aname == names[i]
             attr1 == GetAttr(self, aname)
             attr2 == GetAttr(other, aname)
             log2 == log \o <<GetEvent("self", aname), GetEvent("other", aname)>>
         IN  IF attr1.exc # "none" \/ attr2.exc # "none"
             THEN EqualityLoop(self, other, names, i + 1, log2)
             ELSE LET eq == PyEq(attr1.val, attr2.val)
                      log3 == Append(log2, EqEvent(aname))
                  IN  IF eq.exc # "none" THEN Logged(eq, log3)
                      ELSE IF ~eq.val THEN Logged(Return(FALSE), log3)
                      ELSE EqualityLoop(self, other, names, i + 1, log3)

\* the for loop of Comparable.equality from names[i] on; log holds the
\* attribute fetches and comparisons made so far, in order
EqualityLoop(self, other, names, i, log) ==
    IF i > Len(names) THEN Logged(Return(TRUE), log)
    ELSE LET aname == names[i]
             attr1 == GetAttr(self, aname)
             log1 == Append(log, GetEvent("self", aname))
         IN  IF attr1.exc # "none" THEN Logged(Return(FALSE), log1)
             ELSE LET attr2 == GetAttr(other, aname)
                      log2 == Append(log1, GetEvent("other", aname))
                  IN  IF attr2.exc # "none" THEN Logged(Return(FALSE), log2)
                      ELSE LET eq == PyEq(attr1.val, attr2.val)
                               log3 == Append(log2, EqEvent(aname))
                           IN  IF eq.exc # "none" THEN Logged(eq, log3)
                               ELSE IF ~eq.val THEN Logged(Return(FALSE), log3)
                               ELSE EqualityLoop(self, other, names, i + 1, log3)

\* Comparable.equality(self, other, names)
Comparable_equality(self, other, names) ==
    EqualityLoop(self, other, names, 1, <<>>)

\* CompoundComparable.equality(self, other): names defaults to
\* self.equality_list
CompoundComparable_equality(self, other) ==
    Comparable_equality(self, other, EqualityList(self))

\* Group.equality without the comparison of the lengths
Group_equality_NoLength(self, other) ==
    LET r == CompoundComparable_equality(self, other)
    IN  [exc |-> r.exc, val |-> r.val]

\* len(other): Group.__len__; no other class of the model has __len__
PyLen(obj) ==
    IF obj.cls = "Group" THEN Return(Len(obj.items)) ELSE Raise("TypeError")

\* Group.equality
Group_equality(self, other) ==
    LET n == PyLen(other)
    IN  IF n.exc # "none" THEN n
        ELSE IF ~(Len(self.items) = n.val) THEN Return(FALSE)
        ELSE LET r == CompoundComparable_equality(self, other)
             IN  [exc |-> r.exc, val |-> r.val]

\* equal(obj1, obj2) == obj1.equality(obj2), dispatched on the class of obj1
equal(obj1, obj2) ==
    CASE obj1.cls \in {"Number", "Text"} -> LeafEqual(obj1, obj2)
      [] obj1.cls = "Group" -> Group_equality(obj1, obj2)
      [] OTHER ->
            LET r == CompoundComparable_equality(obj1, obj2)
            IN  [exc |-> r.exc, val |-> r.val]

(***************************************************************************)
(* Similarity values (base.py Similarity).                                 *)
(***************************************************************************)
Similarity(value, threshold) == [value |-> value, threshold |-> threshold]

IsSimilarity(x) == "threshold" \in DOMAIN x

\* float(other): Similarity.__float__ of a Similarity, the number itself
\* of a bare number
Float(x) == IF IsSimilarity(x) THEN x.value ELSE x

\* what a method of Similarity hands back: a Similarity it constructed, or
\* self after changing it
Constructed(s) == [new |-> TRUE, obj |-> s]
Returned(self) == [new |-> FALSE, obj |-> self]

\* Similarity.__add__ giving the result the threshold of the right operand
Similarity__add__RightThreshold(self, other) ==
    Constructed(Similarity(RatAdd(self.value, Float(other)),
                           IF IsSimilarity(other) THEN other.threshold
                           ELSE self.threshold))

Similarity__add__(self, other) ==
    Constructed(Similarity(RatAdd(self.value, Float(other)), self.threshold))
Similarity__radd__(self, other) ==
    Constructed(Similarity(RatAdd(Float(other), self.value), self.threshold))
Similarity__iadd__(self, other) ==
    Returned([self EXCEPT !.value = RatAdd(self.value, Float(other))])
Similarity__sub__(self, other) ==
    Constructed(Similarity(RatSub(self.value, Float(other)), self.threshold))
Similarity__rsub__(self, other) ==
    Constructed(Similarity(RatSub(Float(other), self.value), self.threshold))
Similarity__isub__(self, other) ==
    Returned([self EXCEPT !.value = RatSub(self.value, Float(other))])
Similarity__mul__(self, other) ==
    Constructed(Similarity(RatMul(self.value, Float(other)), self.threshold))
Similarity__rmul__(self, other) ==
    Constructed(Similarity(RatMul(Float(other), self.value), self.threshold))
Similarity__imul__(self, other) ==
    Returned([self EXCEPT !.value = RatMul(self.value, Float(other))])
Similarity__abs__(self) ==
    Constructed(Similarity(RatAbs(self.value), self.threshold))

\* Similarity.__gt__: float(self) > float(other)
Similarity__gt__(self, other) == RatLt(Float(other), Float(self))

\* Similarity.__bool__ asking for more than the threshold
Similarity__bool__Strict(self) == RatLt(self.threshold, self.value)

\* Similarity.__bool__
Similarity__bool__(self) == ~RatLt(self.value, self.threshold)

\* max(a, b) of Python: b only when b > a
PyMax(a, b) == IF Similarity__gt__(b, a) THEN b ELSE a

(***************************************************************************)
(* Similarity of the leaf types.                                           *)
(***************************************************************************)
\* other.value as the leaf methods read it
ValueOf(obj) ==
    CASE obj.cls = "Number" -> Return(obj.num)
      [] obj.cls = "Text" -> Return(obj.text)
      [] OTHER -> Raise("AttributeError")

\* Number.similarity without the handler of ZeroDivisionError
Number_similarity_NoHandler(self, other) ==
    LET v == ValueOf(other)
    IN  IF v.exc # "none" THEN v
        ELSE IF other.cls # "Number" THEN Raise("TypeError")
        ELSE LET numerator == IF self.num <= v.val THEN self.num ELSE v.val
                 denominator == IF self.num <= v.val THEN v.val ELSE self.num
             IN  IF denominator = 0 THEN Raise("ZeroDivisionError")
                 ELSE Return(Similarity(Rat(numerator, denominator),
                                        SimilarityThreshold(self)))

\* Number.similarity: the ratio of the smaller to the larger value; sorted()
\* of a number and a string is a TypeError
Number_similarity(self, other) ==
    LET v == ValueOf(other)
    IN  IF v.exc # "none" THEN v
        ELSE IF other.cls # "Number" THEN Raise("TypeError")
        ELSE LET numerator == IF self.num <= v.val THEN self.num ELSE v.val
                 denominator == IF self.num <= v.val THEN v.val ELSE self.num
                 ratio == IF denominator = 0
                          THEN (IF numerator # 0 THEN Zero ELSE One)
                          ELSE Rat(numerator, denominator)
             IN  Return(Similarity(ratio, SimilarityThreshold(self)))

\* difflib.SequenceMatcher(a, b).ratio() = 2 * M / T for M matched
\* characters of T in total, 1.0 when T = 0.  The strings of the model are
\* pairwise equal or without a common character, so M is Len(a) or 0.
SequenceMatcherRatio(a, b) ==
    IF Len(a) + Len(b) = 0 THEN One
    ELSE Rat(2 * (IF a = b THEN Len(a) ELSE 0), Len(a) + Len(b))

\* Text.similarity; SequenceMatcher of a string and a number is a TypeError
Text_similarity(self, other) ==
    LET v == ValueOf(other)
    IN  IF v.exc # "none" THEN v
        ELSE IF other.cls # "Text" THEN Raise("TypeError")
        ELSE Return(Similarity(SequenceMatcherRatio(self.text, v.val),
                               SimilarityThreshold(self)))

(***************************************************************************)
(* Similarity by attributes (base.py Comparable.similarity) and of groups   *)
(* (compound.py Group.similarity).                                         *)
(***************************************************************************)
\* the final scaling multiplying by the total instead of by 1.0 / total
RatInvForgotten(a) == a

\* 1.0 / total
RatInv(a) == Rat(a.d, a.n)

RECURSIVE SimilarityLoop(_, _, _, _, _, _)

\* similar(obj1, obj2) == obj1.similarity(obj2) of a leaf obj1
LeafSimilar(obj1, obj2) ==
    CASE obj1.cls = "Number" -> Number_similarity(obj1, obj2)
      [] obj1.cls = "Text" -> Text_similarity(obj1, obj2)

\* attr1 % attr2 of two attribute values or items, which in the model are
\* leaves: Comparable.__mod__ of the left operand
PyMod(attr1, attr2) == LeafSimilar(attr1, attr2)

\* the for loop of Comparable.similarity from names[i] on, then the final
\* scaling by 1.0 / total
SimilarityLoop(self, other, names, i, sim, total) ==
    IF i > Len(names)
    THEN IF total # Zero
         THEN Return(Similarity__imul__(sim, RatInv(total)).obj)
         ELSE Return(sim)
    ELSE LET aname == names[i].name
             weight == Rat(names[i].weight, 1)
             attr1 == GetAttr(self, aname)
             attr2 == GetAttr(other, aname)
         IN  IF attr1.exc # "none" \/ attr2.exc # "none"
             THEN SimilarityLoop(self, other, names, i + 1, sim, total)
             ELSE IF attr1.val.cls = "NoneType" \/ attr2.val.cls = "NoneType"
             THEN SimilarityLoop(self, other, names, i + 1, sim, total)
             ELSE LET attr_sim == PyMod(attr1.val, attr2.val)
                  IN  IF attr_sim.exc # "none" THEN attr_sim
                      ELSE SimilarityLoop(self, other, names, i + 1,
                               Similarity__iadd__(sim,
                                   Similarity__mul__(attr_sim.val,
                                                     weight).obj).obj,
                               RatAdd(total, weight))

\* Comparable.similarity(self, other, names)
Comparable_similarity(self, other, names) ==
    SimilarityLoop(self, other, names, 1,
                   Similarity(Zero, SimilarityThreshold(self)), Zero)

\* CompoundComparable.similarity(self, other): names defaults to
\* self.similarity_dict
CompoundComparable_similarity(self, other) ==
    Comparable_similarity(self, other, SimilarityDict(self))

\* self.Similarity: the constructor is a class attribute of SimpleComparable
\* only (base.py line 321); on a Group the lookup falls through to
\* Group.__getattr__, on Alpha and Beta it fails outright
SimilarityName == <<"S", "i", "m", "i", "l", "a", "r", "i", "t", "y">>

LookupSimilarity(self) ==
    CASE self.cls \in {"Number", "Text"} -> Return(TRUE)
      [] self.cls = "Group" ->
            LET r == Group__getattr__(self, SimilarityName)
            IN  IF r.exc = "none" THEN Return(TRUE) ELSE r
      [] OTHER -> Raise("AttributeError")

RemoveAt(seq, i) == SubSeq(seq, 1, i - 1) \o SubSeq(seq, i + 1, Len(seq))

\* itertools.permutations(items, len(items)): every ordering, in the
\* lexicographic order of the positions
RECURSIVE permutations(_)
RECURSIVE PermutationsFrom(_, _)
PermutationsFrom(items, i) ==
    IF i > Len(items) THEN <<>>
    ELSE LET rest == permutations(RemoveAt(items, i))
         IN  [k \in 1..Len(rest) |-> <<items[i]>> \o rest[k]]
             \o PermutationsFrom(items, i + 1)

permutations(items) ==
    IF Len(items) = 0 THEN << <<>> >> ELSE PermutationsFrom(items, 1)

GroupResult(r, self, other) ==
    [exc |-> r.exc, val |-> r.val, self |-> self, other |-> other]

\* the for loop of Group.similarity from the k-th permutation on, then the
\* restore of first.items; an exception of a comparison leaves the loop
\* with first.items still assigned to the permutation
RECURSIVE SearchLoop(_, _, _, _, _, _)
SearchLoop(first, second, items, perms, k, sim) ==
    IF k > Len(perms)
    THEN [exc |-> "none", val |-> sim,
          first |-> [first EXCEPT !.items = items], second |-> second]
    ELSE LET permuted == [first EXCEPT !.items = perms[k]]
             r == CompoundComparable_similarity(permuted, second)
         IN  IF r.exc # "none"
             THEN [exc |-> r.exc, val |-> r.val,
                   first |-> permuted, second |-> second]
             ELSE SearchLoop(first, second, items, perms, k + 1,
                             PyMax(sim, r.val))

\* Group.similarity(self, other); the result carries both groups as the
\* call leaves them
Group_similarity(self, other) ==
    LET ctor == LookupSimilarity(self)
    IN  IF ctor.exc # "none" THEN GroupResult(ctor, self, other)
        ELSE IF other.cls # "Group"
        THEN GroupResult(Raise("AttributeError"), self, other)
        ELSE LET sim == Similarity(Zero, SimilarityThreshold(self))
                 selfFirst == Len(self.items) > Len(other.items)
                 first == IF selfFirst THEN self ELSE other
                 second == IF selfFirst THEN other ELSE self
                 items == first.items
             IN  IF Len(items) = 0
                 THEN GroupResult(
                          Return(Similarity(One, SimilarityThreshold(self))),
                          self, other)
                 ELSE LET r == SearchLoop(first, second, items,
                                          permutations(items), 1, sim)
                      IN  IF selfFirst
                          THEN GroupResult(r, r.first, r.second)
                          ELSE GroupResult(r, r.second, r.first)

\* similar(obj1, obj2) == obj1.similarity(obj2), dispatched on the class of
\* obj1
similar(obj1, obj2) ==
    CASE obj1.cls \in {"Number", "Text"} -> LeafSimilar(obj1, obj2)
      [] obj1.cls = "Group" ->
            LET r == Group_similarity(obj1, obj2)
            IN  [exc |-> r.exc, val |-> r.val]
      [] OTHER -> CompoundComparable_similarity(obj1, obj2)

(***************************************************************************)
(* The state: two operand objects, the record of the last completed call,  *)
(* the history of the two objects when they are Groups (the length each    *)
(* was constructed with, and whether its items were reassigned since), and *)
(* for the arithmetic of Similarity values a heap of Similarity objects,   *)
(* the record of the last operation and the number of operations applied.  *)
(* An action that makes a call binds its result once, as r.                *)
(***************************************************************************)
VARIABLES obj1, obj2, call, hist, sims, arith, nops

vars == <<obj1, obj2, call, hist, sims, arith, nops>>

SeqsUpTo(S, n) == UNION {[1..k -> S] : k \in 0..n}

Groups == {Group__init__(items) : items \in SeqsUpTo(Leaves, MaxLen)}

AttrValues == Numbers \cup {None}

Compounds ==
    {Compound(c, attrs) :
        c \in CompoundClasses,
        attrs \in UNION {[D -> AttrValues] : D \in SUBSET {AttrX, AttrY}}}

Comparables == Leaves \cup Groups \cup Compounds

NoCall == [op |-> "none"]
NoHist == [built |-> <<0, 0>>, assigned |-> <<FALSE, FALSE>>]
Built(o1, o2) ==
    [built |-> <<Len(o1.items), Len(o2.items)>>, assigned |-> <<FALSE, FALSE>>]

Receiver(recv) == IF recv = 1 THEN obj1 ELSE obj2
Argument(recv) == IF recv = 1 THEN obj2 ELSE obj1

ArithIdle == sims = <<>> /\ arith = NoCall /\ nops = 0

(***************************************************************************)
(* equal(a, b) and a == b over comparables of every class.                 *)
(***************************************************************************)
InitEqual ==
    /\ obj1 \in Comparables
    /\ obj2 \in Comparables
    /\ call = NoCall
    /\ hist = NoHist
    /\ ArithIdle

CallEqual ==
    \E recv \in {1, 2} :
        \E r \in {equal(Receiver(recv), Argument(recv))} :
            /\ call' = [op |-> "equal", recv |-> recv,
                        exc |-> r.exc, val |-> r.val]
            /\ UNCHANGED <<obj1, obj2, hist, sims, arith, nops>>

NextEqual == CallEqual

SpecEqual == InitEqual /\ [][NextEqual]_vars

\* C1: for comparables of different concrete classes equal(a, b) returns
\* False: it neither returns True nor raises.
C1_TypeSafety ==
    (call.op = "equal" /\ Receiver(call.recv).cls # Argument(call.recv).cls)
        => (call.exc = "none" /\ call.val = FALSE)

(***************************************************************************)
(* Equality and similarity by attributes, with an explicit names argument. *)
(* The calls are pure, so one call per behaviour reaches every result.     *)
(***************************************************************************)
AttrNames == {AttrX, AttrY}

NameLists == SeqsUpTo(AttrNames, MaxNames)

\* a names dict: distinct keys in insertion order, each with its weight
WeightDicts ==
    {d \in SeqsUpTo([name : AttrNames, weight : 0..MaxWeight],
                    Cardinality(AttrNames)) :
        \A i, j \in 1..Len(d) : i # j => d[i].name # d[j].name}

InitAttrs ==
    /\ obj1 \in Compounds
    /\ obj2 \in Compounds
    /\ call = NoCall
    /\ hist = NoHist
    /\ ArithIdle

\* obj.equality(other, names)
CallEquality ==
    /\ call = NoCall
    /\ \E recv \in {1, 2}, names \in NameLists :
        \E r \in {Comparable_equality(Receiver(recv), Argument(recv), names)} :
            /\ call' = [op |-> "equality", recv |-> recv, names |-> names,
                        exc |-> r.exc, val |-> r.val, log |-> r.log]
            /\ UNCHANGED <<obj1, obj2, hist, sims, arith, nops>>

\* obj.similarity(other, names)
CallSimilarity ==
    /\ call = NoCall
    /\ \E recv \in {1, 2}, names \in WeightDicts :
        \E r \in {Comparable_similarity(Receiver(recv), Argument(recv), names)} :
            /\ call' = [op |-> "similarity", recv |-> recv, names |-> names,
                        exc |-> r.exc, val |-> r.val]
            /\ UNCHANGED <<obj1, obj2, hist, sims, arith, nops>>

NextAttrs == CallEquality \/ CallSimilarity

SpecAttrs == InitAttrs /\ [][NextAttrs]_vars

\* the operands and the names of the last call
Self == Receiver(call.recv)
Other == Argument(call.recv)

Present(obj, name) == name \in DOMAIN obj.attrs

\* an attribute that the similarity by attributes can use: present and not
\* None on both sides
Usable(name) ==
    /\ Present(Self, name) /\ Present(Other, name)
    /\ Self.attrs[name] # None /\ Other.attrs[name] # None

ChildSimilarity(name) == PyMod(Self.attrs[name], Other.attrs[name]).val.value

RECURSIVE SumOver(_, _, _)
SumOver(d, idx, scored) ==
    IF idx = {} THEN Zero
    ELSE LET i == CHOOSE k \in idx : TRUE
             term == IF scored
                     THEN RatMul(Rat(d[i].weight, 1), ChildSimilarity(d[i].name))
                     ELSE Rat(d[i].weight, 1)
         IN  RatAdd(term, SumOver(d, idx \ {i}, scored))

UsableIndices(d) == {i \in 1..Len(d) : Usable(d[i].name)}
UsableWeight(d) == SumOver(d, UsableIndices(d), FALSE)
UsableScore(d) == SumOver(d, UsableIndices(d), TRUE)

\* v = UsableScore(d) / UsableWeight(d), and v = 0 when the weight is 0
IsWeightedAverage(v, d) ==
    LET s == UsableScore(d)
        w == UsableWeight(d)
    IN  IF w.n = 0 THEN v.n = 0
        ELSE v.n * s.d * w.n = s.n * w.d * v.d

\* C7: the similarity by attributes returns, without raising, a Similarity
\* with the threshold of the receiver whose value is the weighted average of
\* the attribute similarities over the usable attributes, and 0.0 when the
\* usable weights add up to 0.
C7_WeightedAverage ==
    call.op = "similarity" =>
        /\ call.exc = "none"
        /\ call.val.threshold = SimilarityThreshold(Self)
        /\ IsWeightedAverage(call.val.value, call.names)

\* a call over two usable attributes of different weight and similarity, and
\* one whose attributes are all skipped
C7_Witness ==
    /\ call.op = "similarity"
    /\ Self.cls = "Beta"
    /\ Len(call.names) = 2
    /\ UsableIndices(call.names) = {1, 2}
    /\ call.names[1].weight # call.names[2].weight
    /\ ChildSimilarity(AttrX) # ChildSimilarity(AttrY)
    /\ call.val.value = Rat(2, 3)

C7_WitnessNoData ==
    /\ call.op = "similarity"
    /\ Len(call.names) = 2
    /\ UsableIndices(call.names) = {}
    /\ call.names[1].weight > 0
    /\ call.val.value = Zero

\* the pair of attributes called name can be fetched and compares equal
PairEqual(name) ==
    /\ Present(Self, name) /\ Present(Other, name)
    /\ LET r == PyEq(Self.attrs[name], Other.attrs[name])
       IN  r.exc = "none" /\ r.val

\* the first position of names whose pair is not equal, Len(names) + 1 if
\* there is none
FirstFailing(names) ==
    IF \A i \in 1..Len(names) : PairEqual(names[i]) THEN Len(names) + 1
    ELSE CHOOSE i \in 1..Len(names) :
            /\ ~PairEqual(names[i])
            /\ \A k \in 1..(i - 1) : PairEqual(names[k])

\* the position of names that the j-th logged event belongs to, when every
\* earlier position was fetched on both sides and compared
Position(j) == ((j - 1) \div 3) + 1

FullyProcessed(log, names, i) ==
    /\ Len(log) >= 3 * i
    /\ log[3 * i - 2] = GetEvent("self", names[i])
    /\ log[3 * i - 1] = GetEvent("other", names[i])
    /\ log[3 * i] = EqEvent(names[i])

\* C8: the equality by attributes returns True exactly when every name can
\* be fetched on both sides and every pair compares equal; the names are
\* processed in the declared order up to and including the first failing
\* one and no later name is fetched or compared; a missing attribute gives
\* False, not an error.
C8_ShortCircuit ==
    call.op = "equality" =>
        LET names == call.names
            log == call.log
            f == FirstFailing(names)
        IN  /\ (call.exc = "none" /\ call.val = TRUE) <=> f > Len(names)
            /\ \A i \in 1..Len(names) : i < f => FullyProcessed(log, names, i)
            /\ \A j \in 1..Len(log) :
                  /\ Position(j) <= Len(names)
                  /\ Position(j) <= f
                  /\ log[j].name = names[Position(j)]
            /\ f <= Len(names) =>
                  /\ Len(log) > 3 * (f - 1)
                  /\ log[3 * f - 2] = GetEvent("self", names[f])
                  /\ ~(Present(Self, names[f]) /\ Present(Other, names[f])) =>
                        /\ call.exc = "none" /\ call.val = FALSE
                        /\ Len(log) < 3 * f
                  /\ (Present(Self, names[f]) /\ Present(Other, names[f])) =>
                        /\ log[Len(log)] = EqEvent(names[f])
                        /\ call.exc = PyEq(Self.attrs[names[f]],
                                           Other.attrs[names[f]]).exc
                        /\ call.exc = "none" => call.val = FALSE

\* a call that stops at a first name missing on the argument's side although
\* the second name is present and equal on both sides
C8_Witness ==
    /\ call.op = "equality"
    /\ Len(call.names) = 2
    /\ call.names[1] # call.names[2]
    /\ Present(Self, call.names[1]) /\ ~Present(Other, call.names[1])
    /\ PairEqual(call.names[2])
    /\ call.exc = "none" /\ call.val = FALSE
    /\ call.log = <<GetEvent("self", call.names[1]),
                    GetEvent("other", call.names[1])>>

(***************************************************************************)
(* Groups: equality and similarity of two Group objects, in both           *)
(* directions and in any sequence.                                         *)
(***************************************************************************)
InitGroup ==
    /\ obj1 \in Groups
    /\ obj2 \in Groups
    /\ call = NoCall
    /\ hist = Built(obj1, obj2)
    /\ ArithIdle

\* obj.equality(other) of a Group
CallGroupEquality ==
    \E recv \in {1, 2} :
        \E r \in {Group_equality(Receiver(recv), Argument(recv))} :
            /\ call' = [op |-> "Group.equality", recv |-> recv,
                        exc |-> r.exc, val |-> r.val, pre |-> <<obj1, obj2>>]
            /\ UNCHANGED <<obj1, obj2, hist, sims, arith, nops>>

\* obj.similarity(other) of a Group; the call leaves both groups as
\* Group.similarity leaves them
CallGroupSimilarity ==
    \E recv \in {1, 2} :
        \E r \in {Group_similarity(Receiver(recv), Argument(recv))} :
            /\ call' = [op |-> "Group.similarity", recv |-> recv,
                        exc |-> r.exc, val |-> r.val, pre |-> <<obj1, obj2>>]
            /\ obj1' = IF recv = 1 THEN r.self ELSE r.other
            /\ obj2' = IF recv = 1 THEN r.other ELSE r.self
            /\ UNCHANGED <<hist, sims, arith, nops>>

NextGroup == CallGroupEquality \/ CallGroupSimilarity

SpecGroup == InitGroup /\ [][NextGroup]_vars

(***************************************************************************)
(* Groups whose items attribute is also assigned by the caller: items is a *)
(* plain attribute, and nothing but Group.__init__ writes equality_list    *)
(* and similarity_dict.                                                    *)
(***************************************************************************)
InitAssign ==
    /\ obj1 \in Groups
    /\ obj2 = Group__init__(<<>>)
    /\ call = NoCall
    /\ hist = Built(obj1, obj2)
    /\ ArithIdle

\* obj1 = Group(items)
Construct ==
    \E items \in SeqsUpTo(Leaves, MaxLen) :
        /\ obj1' = Group__init__(items)
        /\ hist' = [built |-> <<Len(items), hist.built[2]>>,
                    assigned |-> <<FALSE, hist.assigned[2]>>]
        /\ call' = NoCall
        /\ UNCHANGED <<obj2, sims, arith, nops>>

\* obj1.items = items
AssignItems ==
    \E items \in SeqsUpTo(Leaves, MaxLen) :
        /\ obj1' = [obj1 EXCEPT !.items = items]
        /\ hist' = [hist EXCEPT !.assigned[1] = TRUE]
        /\ call' = NoCall
        /\ UNCHANGED <<obj2, sims, arith, nops>>

NextAssign ==
    \/ Construct
    \/ AssignItems
    \/ CallGroupEquality
    \/ CallGroupSimilarity

SpecAssign == InitAssign /\ [][NextAssign]_vars

(***************************************************************************)
(* Statements about groups.  Recv and Arg are the two groups as they were  *)
(* when the last call was made.                                            *)
(***************************************************************************)
Recv == call.pre[call.recv]
Arg == call.pre[3 - call.recv]

\* the side whose items Group.similarity permutes, and the other side
LongerSide == IF Len(Recv.items) > Len(Arg.items) THEN Recv ELSE Arg
ShorterSide == IF Len(Recv.items) > Len(Arg.items) THEN Arg ELSE Recv

Orderings(n) == {p \in [1..n -> 1..n] : \A i, j \in 1..n : i # j => p[i] # p[j]}

Reordered(items, p) == [i \in 1..Len(items) |-> items[p[i]]]

ItemsEqual(x, y) == LET r == PyEq(x, y) IN r.exc = "none" /\ r.val

ItemSimilarity(x, y) == PyMod(x, y).val.value

RECURSIVE SumOfSimilarities(_, _, _)
SumOfSimilarities(first, second, n) ==
    IF n = 0 THEN Zero
    ELSE RatAdd(ItemSimilarity(first[n], second[n]),
                SumOfSimilarities(first, second, n - 1))

\* the positional similarity of two item sequences, the first at least as
\* long as the second: the average over the positions of the second
Positional(first, second) ==
    IF Len(second) = 0 THEN Zero
    ELSE LET sum == SumOfSimilarities(first, second, Len(second))
         IN  Rat(sum.n, sum.d * Len(second))

\* the best positional similarity over all orderings of the longer sequence
BestAssignment(first, second) ==
    IF Len(first) = 0 THEN One
    ELSE LET scores == {Positional(Reordered(first, p), second) :
                            p \in Orderings(Len(first))}
         IN  CHOOSE v \in scores : \A w \in scores : ~RatLt(v, w)

C3_BestPermutation ==
    call.op = "Group.similarity" =>
        /\ call.exc = "none"
        /\ call.val.value = BestAssignment(LongerSide.items, ShorterSide.items)

\* C4: the similarity of two groups is the same for every reordering of the
\* receiver's items.
C4_OrderIndependent ==
    call.op = "Group.similarity" =>
        /\ call.exc = "none"
        /\ \A p \in Orderings(Len(Recv.items)) :
              LET r == Group_similarity(
                           Group__init__(Reordered(Recv.items, p)), Arg)
              IN  r.exc = "none" /\ r.val.value = call.val.value

\* every item of the shorter group has similarity 1.0 with an item of the
\* longer group of its own
PerfectMatch(longer, shorter) ==
    \E f \in [1..Len(shorter) -> 1..Len(longer)] :
        /\ \A i, j \in 1..Len(shorter) : i # j => f[i] # f[j]
        /\ \A i \in 1..Len(shorter) :
              LET r == PyMod(longer[f[i]], shorter[i])
              IN  r.exc = "none" /\ r.val.value = One

\* C5: for two groups of different sizes, the smaller of 0 items or more,
\* the similarity is 1.0 whenever every item of the smaller group has
\* similarity 1.0 with a distinct item of the larger group.
C5_ExtrasUnscored ==
    (/\ call.op = "Group.similarity"
     /\ Len(Recv.items) # Len(Arg.items)
     /\ PerfectMatch(LongerSide.items, ShorterSide.items))
        => (call.exc = "none" /\ call.val.value = One)

\* C6: Group.equality returns True exactly when both groups have as many
\* items and the items are equal position by position; with different
\* lengths it returns False whatever the items are.
C6_PositionalEquality ==
    call.op = "Group.equality" =>
        /\ (call.exc = "none" /\ call.val = TRUE) <=>
              /\ Len(Recv.items) = Len(Arg.items)
              /\ \A i \in 1..Len(Recv.items) :
                    ItemsEqual(Recv.items[i], Arg.items[i])
        /\ Len(Recv.items) # Len(Arg.items) =>
              (call.exc = "none" /\ call.val = FALSE)

\* two groups of the same two unequal items in opposite orders are compared
\* and found not equal
C6_Witness ==
    /\ call.op = "Group.equality"
    /\ Len(Recv.items) = 2
    /\ Arg.items = <<Recv.items[2], Recv.items[1]>>
    /\ ~ItemsEqual(Recv.items[1], Recv.items[2])
    /\ ItemsEqual(Recv.items[1], Recv.items[1])
    /\ ItemsEqual(Recv.items[2], Recv.items[2])
    /\ call.exc = "none" /\ call.val = FALSE

\* two groups of different lengths whose common positions are equal
C6_WitnessLength ==
    /\ call.op = "Group.equality"
    /\ Len(Recv.items) = 1 /\ Len(Arg.items) = 2
    /\ ItemsEqual(Recv.items[1], Arg.items[1])
    /\ call.exc = "none" /\ call.val = FALSE

ArithThresholds == {Rat(1, 2), One}
ArithNumbers == {Rat(-3, 1)}

Ids == 1..Len(sims)
Operands == [kind : {"sim"}, id : Ids] \cup [kind : {"num"}, num : ArithNumbers]
Operand(x) == IF x.kind = "sim" THEN sims[x.id] ELSE x.num

InitArith ==
    /\ obj1 = None
    /\ obj2 = None
    /\ call = NoCall
    /\ hist = NoHist
    /\ \E t1, t2 \in ArithThresholds :
          sims = <<Similarity(Rat(-1, 2), t1), Similarity(Rat(2, 1), t2)>>
    /\ arith = NoCall
    /\ nops = 0

\* the effect of a method called on sims[i] that handed back r: a
\* constructed Similarity is a new object of the heap, self is sims[i]
Apply(op, i, right, r) ==
    /\ nops < MaxOps
    /\ nops' = nops + 1
    /\ sims' = IF r.new THEN Append(sims, r.obj) ELSE [sims EXCEPT ![i] = r.obj]
    /\ arith' = [op |-> op, self |-> i, right |-> right, pre |-> sims,
                 result |-> IF r.new THEN Len(sims) + 1 ELSE i]
    /\ UNCHANGED <<obj1, obj2, call, hist>>

\* sims[i] + x, sims[i] - x, sims[i] * x
Add == \E i \in Ids, x \in Operands :
          Apply("add", i, x, Similarity__add__(sims[i], Operand(x)))
Sub == \E i \in Ids, x \in Operands :
          Apply("sub", i, x, Similarity__sub__(sims[i], Operand(x)))
Mul == \E i \in Ids, x \in Operands :
          Apply("mul", i, x, Similarity__mul__(sims[i], Operand(x)))

\* n + sims[i], n - sims[i], n * sims[i] for a bare number n
RAdd == \E i \in Ids, n \in ArithNumbers :
           Apply("radd", i, [kind |-> "num", num |-> n],
                 Similarity__radd__(sims[i], n))
RSub == \E i \in Ids, n \in ArithNumbers :
           Apply("rsub", i, [kind |-> "num", num |-> n],
                 Similarity__rsub__(sims[i], n))
RMul == \E i \in Ids, n \in ArithNumbers :
           Apply("rmul", i, [kind |-> "num", num |-> n],
                 Similarity__rmul__(sims[i], n))

\* sims[i] += x, sims[i] -= x, sims[i] *= x
IAdd == \E i \in Ids, x \in Operands :
           Apply("iadd", i, x, Similarity__iadd__(sims[i], Operand(x)))
ISub == \E i \in Ids, x \in Operands :
           Apply("isub", i, x, Similarity__isub__(sims[i], Operand(x)))
IMul == \E i \in Ids, x \in Operands :
           Apply("imul", i, x, Similarity__imul__(sims[i], Operand(x)))

\* abs(sims[i])
AbsOf == \E i \in Ids :
            Apply("abs", i, [kind |-> "num", num |-> Zero],
                  Similarity__abs__(sims[i]))

NextArith ==
    \/ Add \/ Sub \/ Mul
    \/ RAdd \/ RSub \/ RMul
    \/ IAdd \/ ISub \/ IMul
    \/ AbsOf

SpecArith == InitArith /\ [][NextArith]_vars

InPlaceOps == {"iadd", "isub", "imul"}
PureOps == {"add", "sub", "mul", "radd", "rsub", "rmul", "abs"}

\* C10: an operation that is not in place returns a new Similarity with the
\* threshold of its left Similarity operand (of its only Similarity operand
\* when the left one is a bare number) and changes no operand; an operation
\* in place returns the left operand itself, with its threshold as before,
\* and changes nothing but the value of the left operand.
C10_ThresholdAndPurity ==
    arith.op # "none" =>
        LET pre == arith.pre
            i == arith.self
        IN  /\ arith.op \in PureOps =>
                  /\ arith.result = Len(pre) + 1
                  /\ Len(sims) = Len(pre) + 1
                  /\ sims[arith.result].threshold = pre[i].threshold
                  /\ \A k \in 1..Len(pre) : sims[k] = pre[k]
            /\ arith.op \in InPlaceOps =>
                  /\ arith.result = i
                  /\ Len(sims) = Len(pre)
                  /\ sims[i].threshold = pre[i].threshold
                  /\ \A k \in 1..Len(pre) : k # i => sims[k] = pre[k]

\* two Similarity values of different thresholds are added, and a Similarity
\* is added to in place
C10_Witness ==
    /\ arith.op = "add"
    /\ arith.right.kind = "sim"
    /\ arith.right.id # arith.self
    /\ arith.pre[arith.self].threshold # arith.pre[arith.right.id].threshold
    /\ sims[arith.result].threshold = arith.pre[arith.self].threshold

C10_WitnessInPlace ==
    /\ arith.op = "imul"
    /\ arith.right.kind = "sim"
    /\ arith.right.id # arith.self
    /\ arith.pre[arith.self].threshold # arith.pre[arith.right.id].threshold
    /\ sims[arith.self].value # arith.pre[arith.self].value
    /\ arith.result = arith.self

(***************************************************************************)
(* The ranking helpers of tools.py over a base comparable and a sequence   *)
(* of candidates.  The candidates are leaves and by-attributes objects     *)
(* whose two attributes are Numbers, so that similarities above, at and    *)
(* below the threshold of the base occur, and so do comparisons that       *)
(* raise.  The helpers are pure: one call per behaviour.                   *)
(***************************************************************************)
ToolCompounds ==
    {Compound(c, [a \in {AttrX, AttrY} |->
                      IF a = AttrX THEN Number(n) ELSE Number(1)]) :
        c \in CompoundClasses, n \in 0..MaxNum}

Candidates == Leaves \cup ToolCompounds

\* base.similarity(item) for a base that is a candidate: the method of a
\* leaf, or the one a by-attributes class inherits
Candidate_similarity(base, item) ==
    IF base.cls \in {"Number", "Text"} THEN LeafSimilar(base, item)
    ELSE CompoundComparable_similarity(base, item)

RECURSIVE find_similar_from(_, _, _, _)
RECURSIVE MaxByKey(_, _, _, _)

\* [item for item in items if base.similarity(item)] from items[i] on
find_similar_from(base, items, i, found) ==
    IF i > Len(items) THEN Return(found)
    ELSE LET s == Candidate_similarity(base, items[i])
         IN  IF s.exc # "none" THEN s
             ELSE find_similar_from(base, items, i + 1,
                      IF Similarity__bool__(s.val) THEN Append(found, items[i])
                      ELSE found)

\* find_similar(base, items)
find_similar(base, items) == find_similar_from(base, items, 1, <<>>)

\* max(finds, key=base.similarity) from finds[i] on: a later item replaces
\* the best one only when its key is greater
MaxByKey(base, finds, i, best) ==
    IF i > Len(finds) THEN best
    ELSE MaxByKey(base, finds, i + 1,
             IF Similarity__gt__(Candidate_similarity(base, finds[i]).val,
                                 Candidate_similarity(base, best).val)
             THEN finds[i] ELSE best)

\* match_similar taking the first find for the best one
Matched_FirstFind(base, finds) ==
    IF finds.exc # "none" THEN finds
    ELSE IF Len(finds.val) > 0 THEN Return(finds.val[1])
    ELSE Return(None)

\* match_similar after finds = find_similar(base, items)
Matched(base, finds) ==
    IF finds.exc # "none" THEN finds
    ELSE IF Len(finds.val) > 0
    THEN Return(MaxByKey(base, finds.val, 2, finds.val[1]))
    ELSE Return(None)

\* match_similar(base, items)
match_similar(base, items) == Matched(base, find_similar(base, items))

InitTools ==
    /\ obj1 \in Candidates
    /\ obj2 = None
    /\ call = NoCall
    /\ hist = NoHist
    /\ ArithIdle

\* find_similar(obj1, items)
CallFindSimilar ==
    /\ call = NoCall
    /\ \E items \in SeqsUpTo(Candidates, MaxLen) :
          \E r \in {find_similar(obj1, items)} :
              /\ call' = [op |-> "find_similar", items |-> items,
                          exc |-> r.exc, val |-> r.val]
              /\ UNCHANGED <<obj1, obj2, hist, sims, arith, nops>>

\* match_similar(obj1, items)
CallMatchSimilar ==
    /\ call = NoCall
    /\ \E items \in SeqsUpTo(Candidates, MaxLen) :
          \E r \in {match_similar(obj1, items)} :
              /\ call' = [op |-> "match_similar", items |-> items,
                          exc |-> r.exc, val |-> r.val]
              /\ UNCHANGED <<obj1, obj2, hist, sims, arith, nops>>

NextTools == CallFindSimilar \/ CallMatchSimilar

SpecTools == InitTools /\ [][NextTools]_vars

\* the similarity of the base to the i-th candidate of the last call
SimilarityTo(i) == similar(obj1, call.items[i])

\* every candidate of the last call can be compared with the base
AllComparable == \A i \in 1..Len(call.items) : SimilarityTo(i).exc = "none"

\* value >= threshold, on the numerators and denominators
MeetsThreshold(s) == s.value.n * s.threshold.d >= s.threshold.n * s.value.d

\* the positions of the candidates that meet the threshold, in order
RECURSIVE Meeting(_)
Meeting(n) ==
    IF n = 0 THEN <<>>
    ELSE IF MeetsThreshold(SimilarityTo(n).val)
    THEN Append(Meeting(n - 1), n)
    ELSE Meeting(n - 1)

\* C11: a Similarity is truthy exactly when its value is greater than or
\* equal to its threshold (1.0 unless the class of the base sets another):
\* find_similar returns, in their order, exactly the candidates whose
\* similarity to the base has a value not below its threshold.
C11_TruthyAtThreshold ==
    (call.op = "find_similar" /\ AllComparable) =>
        LET m == Meeting(Len(call.items))
        IN  /\ call.exc = "none"
            /\ call.val = [k \in 1..Len(m) |-> call.items[m[k]]]
            /\ \A i \in 1..Len(call.items) :
                  SimilarityTo(i).val.threshold = SimilarityThreshold(obj1)

\* a base of the default threshold 1.0 finds the candidate whose similarity
\* is exactly 1.0 and not the one whose similarity is below
C11_Witness ==
    /\ call.op = "find_similar"
    /\ obj1.cls = "Alpha"
    /\ Len(call.items) = 2
    /\ AllComparable
    /\ SimilarityTo(1).val.value # One
    /\ SimilarityTo(2).val = Similarity(One, One)
    /\ call.exc = "none"
    /\ call.val = <<call.items[2]>>

\* the i-th candidate is at least as similar to the base as every candidate
Maximal(i) ==
    \A j \in 1..Len(call.items) :
        ~RatLt(SimilarityTo(i).val.value, SimilarityTo(j).val.value)

\* C12 as claimed: match_similar returns a candidate whose similarity to the
\* base is the maximum over all candidates, and None only when there is no
\* candidate.
C12_BestMatch ==
    (call.op = "match_similar" /\ AllComparable) =>
        /\ call.exc = "none"
        /\ call.val.cls = "NoneType" <=> Len(call.items) = 0
        /\ call.val.cls # "NoneType" =>
              \E i \in 1..Len(call.items) :
                  call.val = call.items[i] /\ Maximal(i)

\* C12 as amended: match_similar returns a candidate whose similarity to the
\* base is the maximum over all candidates when that maximum meets the
\* threshold, and None when no candidate meets the threshold, as when there
\* is no candidate.
C12_BestSimilarMatch ==
    (call.op = "match_similar" /\ AllComparable) =>
        /\ call.exc = "none"
        /\ call.val.cls = "NoneType" <=> Meeting(Len(call.items)) = <<>>
        /\ call.val.cls # "NoneType" =>
              \E i \in 1..Len(call.items) :
                  /\ call.val = call.items[i]
                  /\ Maximal(i)
                  /\ MeetsThreshold(SimilarityTo(i).val)

\* the best of two candidates that meet the threshold is the second one
C12_Witness ==
    /\ call.op = "match_similar"
    /\ Len(call.items) = 2
    /\ AllComparable
    /\ Meeting(2) = <<1, 2>>
    /\ RatLt(SimilarityTo(1).val.value, SimilarityTo(2).val.value)
    /\ call.exc = "none"
    /\ call.val = call.items[2]

\* candidates of which none meets the threshold: the answer is None
C12_WitnessNone ==
    /\ call.op = "match_similar"
    /\ Len(call.items) = 2
    /\ AllComparable
    /\ Meeting(2) = <<>>
    /\ call.exc = "none"
    /\ call.val.cls = "NoneType"

(***************************************************************************)
(* Number.similarity over two Numbers, in both directions.                 *)
(***************************************************************************)
InitNumber ==
    /\ obj1 \in {Number(n) : n \in 0..MaxValue}
    /\ obj2 \in {Number(n) : n \in 0..MaxValue}
    /\ call = NoCall
    /\ hist = NoHist
    /\ ArithIdle

\* obj.similarity(other) of a Number
CallNumberSimilarity ==
    \E recv \in {1, 2} :
        \E r \in {Number_similarity(Receiver(recv), Argument(recv))} :
            /\ call' = [op |-> "Number.similarity", recv |-> recv,
                        exc |-> r.exc, val |-> r.val]
            /\ UNCHANGED <<obj1, obj2, hist, sims, arith, nops>>

NextNumber == CallNumberSimilarity

SpecNumber == InitNumber /\ [][NextNumber]_vars

\* C13: Number.similarity of two non-negative values does not raise; it is
\* 1.0 when both are 0, 0.0 when exactly one is 0 and otherwise the smaller
\* divided by the larger; it is the same in the other direction, and meets
\* the threshold when the two values are equal.
C13_ZeroSafeRatio ==
    call.op = "Number.similarity" =>
        LET a == Receiver(call.recv).num
            b == Argument(call.recv).num
            smaller == IF a <= b THEN a ELSE b
            larger == IF a <= b THEN b ELSE a
            back == Number_similarity(Argument(call.recv), Receiver(call.recv))
        IN  /\ call.exc = "none"
            /\ (a = 0 /\ b = 0) => call.val.value = One
            /\ (a = 0) # (b = 0) => call.val.value = Zero
            /\ (a # 0 /\ b # 0) =>
                  call.val.value.n * larger = smaller * call.val.value.d
            /\ back.exc = "none" /\ back.val.value = call.val.value
            /\ a = b => MeetsThreshold(call.val)

\* two Numbers of value 0 are compared and found fully similar
C13_Witness ==
    /\ call.op = "Number.similarity"
    /\ obj1 = Number(0) /\ obj2 = Number(0)
    /\ call.exc = "none"
    /\ call.val.value = One

\* 0 is compared with a positive value, and a positive value with 0
C13_WitnessOneZero ==
    /\ call.op = "Number.similarity"
    /\ Receiver(call.recv) = Number(3) /\ Argument(call.recv) = Number(0)
    /\ call.exc = "none"
    /\ call.val.value = Zero

(***************************************************************************)
(* More statements about Group.similarity, under SpecGroup.                *)
(***************************************************************************)
\* C15: Group.similarity returns the same value with the receiver and the
\* argument exchanged, whichever of the two the selection makes the
\* permuted side.
C15_SelectionSymmetric ==
    call.op = "Group.similarity" =>
        /\ call.exc = "none"
        /\ \E back \in {Group_similarity(Arg, Recv)} :
              back.exc = "none" /\ back.val.value = call.val.value

\* the group that the last call permutes, as the call left it
PermutedAfter ==
    IF (Len(Recv.items) > Len(Arg.items)) = (call.recv = 1) THEN obj1 ELSE obj2

\* the pairing of items with those of the shorter side at position i raises
RaisesAt(items, i) == PyMod(items[i], ShorterSide.items[i]).exc # "none"

\* the items in their original order can be compared position by position,
\* and some reordering of the longer side pairs items that cannot
RaisesOnlyReordered ==
    /\ \A i \in 1..Len(ShorterSide.items) : ~RaisesAt(LongerSide.items, i)
    /\ \E p \in Orderings(Len(LongerSide.items)) :
          \E i \in 1..Len(ShorterSide.items) :
              RaisesAt(Reordered(LongerSide.items, p), i)

Frame(recv) ==
    [pc |-> "l58", recv |-> recv, first |-> 0, items |-> <<>>,
     perms |-> <<>>, k |-> 0, sim |-> Similarity(Zero, One),
     exc |-> "none", val |-> Similarity(Zero, One)]

\* line 81 once super(Group, first).similarity(second) came out as r
Compared(f, o1, o2, r) ==
    [frame |-> IF r.exc # "none"
               THEN [f EXCEPT !.pc = "done", !.exc = r.exc]
               ELSE [f EXCEPT !.pc = "l75", !.k = f.k + 1,
                              !.sim = PyMax(f.sim, r.val)],
     o1 |-> o1, o2 |-> o2]

\* the statement at f.pc of Group.similarity, run on the groups o1 and o2
\* as they are now: the new frame and the groups as the statement leaves
\* them
Statement(f, o1, o2) ==
    LET self == IF f.recv = 1 THEN o1 ELSE o2
        other == IF f.recv = 1 THEN o2 ELSE o1
        first == IF f.first = 1 THEN o1 ELSE o2
        second == IF f.first = 1 THEN o2 ELSE o1
        Same(g) == [frame |-> g, o1 |-> o1, o2 |-> o2]
        Assign(g, items) ==
            [frame |-> g,
             o1 |-> IF f.first = 1 THEN [o1 EXCEPT !.items = items] ELSE o1,
             o2 |-> IF f.first = 2 THEN [o2 EXCEPT !.items = items] ELSE o2]
    IN  CASE f.pc = "l58" ->
                IF LookupSimilarity(self).exc # "none"
                THEN Same([f EXCEPT !.pc = "done",
                                    !.exc = LookupSimilarity(self).exc])
                ELSE Same([f EXCEPT !.pc = "l60",
                                    !.sim = Similarity(Zero,
                                                SimilarityThreshold(self))])
          [] f.pc = "l60" ->
                Same([f EXCEPT !.pc = "l64",
                               !.first = IF Len(self.items) > Len(other.items)
                                         THEN f.recv ELSE 3 - f.recv])
          [] f.pc = "l64" ->
                IF Len(first.items) = 0
                THEN Same([f EXCEPT !.pc = "done",
                                    !.val = Similarity(One,
                                                SimilarityThreshold(self))])
                ELSE Same([f EXCEPT !.pc = "l75", !.items = first.items,
                                    !.perms = permutations(first.items),
                                    !.k = 1])
          [] f.pc = "l75" ->
                Same([f EXCEPT !.pc = IF f.k > Len(f.perms) THEN "l88"
                                      ELSE "l76"])
          [] f.pc = "l76" -> Assign([f EXCEPT !.pc = "l81"], f.perms[f.k])
          [] f.pc = "l81" ->
                Compared(f, o1, o2,
                         CompoundComparable_similarity(first, second))
          [] f.pc = "l88" -> Assign([f EXCEPT !.pc = "l90"], f.items)
          [] f.pc = "l90" -> Same([f EXCEPT !.pc = "done", !.val = f.sim])

InitThreads ==
    /\ obj1 \in Groups
    /\ obj2 \in Groups
    /\ \E recv \in {1, 2} :
          call = [op |-> "threads", frames |-> <<Frame(1), Frame(recv)>>,
                  overlapped |-> FALSE, pre |-> <<obj1, obj2>>]
    /\ hist = Built(obj1, obj2)
    /\ ArithIdle

\* thread t runs its next statement; the step overlaps the other call when
\* that call has begun and not ended
Step(t) ==
    /\ call.frames[t].pc # "done"
    /\ \E n \in {Statement(call.frames[t], obj1, obj2)} :
          /\ obj1' = n.o1
          /\ obj2' = n.o2
          /\ call' = [call EXCEPT
                        !.frames[t] = n.frame,
                        !.overlapped =
                            @ \/ call.frames[3 - t].pc \notin {"l58", "done"}]
    /\ UNCHANGED <<hist, sims, arith, nops>>

NextThreads == \E t \in {1, 2} : Step(t)

SpecThreads == InitThreads /\ [][NextThreads]_vars

BothDone ==
    call.op = "threads" /\ \A t \in {1, 2} : call.frames[t].pc = "done"

\* what the call of thread t gives when nothing else runs
Sequential(t) ==
    Group_similarity(call.pre[call.frames[t].recv],
                     call.pre[3 - call.frames[t].recv])

\* the call of thread t ended as it does when nothing else runs
AsSequential(t) ==
    /\ call.frames[t].exc = Sequential(t).exc
    /\ call.frames[t].exc = "none" =>
          call.frames[t].val.value = Sequential(t).val.value

\* both calls have ended and a group is left in another order than it had,
\* or a call ended otherwise than it does when nothing else runs
C14_Hazard ==
    /\ BothDone
    /\ \/ obj1.items # call.pre[1].items
       \/ obj2.items # call.pre[2].items
       \/ \E t \in {1, 2} : ~AsSequential(t)

\* C14, what it says of every run: the two calls return, and when they run
\* one after the other both groups are left in their original order and
\* each call returns its sequential result.  What it says of some run, that
\* interleaved calls can end in C14_Hazard, is the reachability of that
\* state.
C14_CallsReturnSequentiallySafe ==
    BothDone =>
        /\ \A t \in {1, 2} : call.frames[t].exc = "none"
        /\ ~call.overlapped => ~C14_Hazard

====
